---- MODULE Spec2Model ----
(***************************************************************************)
(* A model of datefind's DateFind (src/src/datefind/datefind.py): the      *)
(* object built by __init__, the generator find_dates stepping through the *)
(* matches of the composite pattern, and the helpers that turn a match's   *)
(* named groups into a datetime.  The wall clock read by datetime.now() is *)
(* part of the state and advances independently of the generator.          *)
(*                                                                         *)
(* A string is a sequence of one-character strings.  None and the empty    *)
(* string are both the empty sequence where the code only tests            *)
(* truthiness (groups.get(key)).  A datetime is a record of its calendar   *)
(* fields; the clock's resolution is one day, the time-of-day fields are   *)
(* carried through every operation of the code unchanged.                  *)
(***************************************************************************)
EXTENDS Integers, Sequences, FiniteSets, TLC

(***************************************************************************)
(* Bounds of the model.                                                    *)
(***************************************************************************)
\* The number of consecutive years, from 2024, the wall clock can show at construction.
NumYears == 1
\* How many times the wall clock advances (by one day) during one call.
MaxTicks == 1
\* The longest text, in characters.
MaxTextLen == 16
\* The most expressions joined into one text.
MaxPieces == 2
\* The longest year string given to _year_to_number on its own.
MaxYearLen == 4

(***************************************************************************)
(* Characters and strings.                                                 *)
(***************************************************************************)
Digits == <<"0", "1", "2", "3", "4", "5", "6", "7", "8", "9">>

Lower == <<"a", "b", "c", "d", "e", "f", "g", "h", "i", "j", "k", "l", "m",
           "n", "o", "p", "q", "r", "s", "t", "u", "v", "w", "x", "y", "z">>

Upper == <<"A", "B", "C", "D", "E", "F", "G", "H", "I", "J", "K", "L", "M",
           "N", "O", "P", "Q", "R", "S", "T", "U", "V", "W", "X", "Y", "Z">>

Range(s) == {s[k] : k \in DOMAIN s}

IsDigit(c) == c \in Range(Digits)

IsLetter(c) == c \in Range(Lower) \cup Range(Upper)

\* str.upper() on one character.
ToUpper(c) ==
    IF c \in Range(Lower) THEN Upper[CHOOSE k \in DOMAIN Lower : Lower[k] = c] ELSE c

\* str.lower() on one character (the effect of re.IGNORECASE on a comparison).
ToLower(c) ==
    IF c \in Range(Upper) THEN Lower[CHOOSE k \in DOMAIN Upper : Upper[k] = c] ELSE c

UpperStr(s) == [k \in DOMAIN s |-> ToUpper(s[k])]

LowerStr(s) == [k \in DOMAIN s |-> ToLower(s[k])]

\* The value of one decimal digit.
DigitVal(c) == (CHOOSE k \in DOMAIN Digits : Digits[k] = c) - 1

\* int(s) for a non-empty run of decimal digits.
RECURSIVE ParseInt(_)
ParseInt(s) ==
    IF s = <<>> THEN 0
    ELSE ParseInt(SubSeq(s, 1, Len(s) - 1)) * 10 + DigitVal(s[Len(s)])

\* str(n), as an f-string formats a non-negative int.
RECURSIVE IntToStr(_)
IntToStr(n) ==
    IF n < 10 THEN <<Digits[n + 1]>>
    ELSE IntToStr(n \div 10) \o <<Digits[(n % 10) + 1]>>

\* s[a:b] of Python: 0-based, half-open.
Slice(s, a, b) == SubSeq(s, a + 1, b)

\* Whether w occurs in s starting at (1-based) position i.
StartsAt(s, i, w) ==
    /\ i >= 1
    /\ i + Len(w) - 1 <= Len(s)
    /\ \A k \in DOMAIN w : s[i + k - 1] = w[k]

\* Whether w occurs anywhere in s (re.search of a literal).
Contains(s, w) == \E i \in 1..(Len(s) + 1) : StartsAt(s, i, w)

(***************************************************************************)
(* The proleptic Gregorian calendar of datetime.                           *)
(***************************************************************************)
IsLeap(y) == (y % 4 = 0) /\ ((y % 100 # 0) \/ (y % 400 = 0))

DaysInMonth(y, m) ==
    IF m = 2 THEN (IF IsLeap(y) THEN 29 ELSE 28)
    ELSE IF m \in {4, 6, 9, 11} THEN 30 ELSE 31

\* Whether datetime(year=y, month=m, day=d) constructs (else ValueError).
ValidDate(y, m, d) ==
    /\ y \in 1..9999          \* datetime.MINYEAR..datetime.MAXYEAR
    /\ m \in 1..12
    /\ d \in 1..DaysInMonth(y, m)

DT(y, m, d) == [year |-> y, month |-> m, day |-> d]

\* The value of a variable of type datetime | None that holds None.
NoneDT == DT(0, 0, 0)

\* The value of a variable of type int | None that holds None.
NoneInt == -1

DaysBeforeYear(y) ==
    (y - 1) * 365 + ((y - 1) \div 4) - ((y - 1) \div 100) + ((y - 1) \div 400)

RECURSIVE DaysBeforeMonth(_, _)
DaysBeforeMonth(y, m) ==
    IF m = 1 THEN 0 ELSE DaysBeforeMonth(y, m - 1) + DaysInMonth(y, m - 1)

\* date.toordinal()
ToOrdinal(dt) == DaysBeforeYear(dt.year) + DaysBeforeMonth(dt.year, dt.month) + dt.day

\* date.fromordinal(n)
FromOrdinal(n) ==
    LET y == CHOOSE yy \in ((n \div 366) - 1)..((n \div 365) + 1) :
                 DaysBeforeYear(yy) < n /\ n <= DaysBeforeYear(yy + 1)
        r == n - DaysBeforeYear(y)
        m == CHOOSE mm \in 1..12 :
                 DaysBeforeMonth(y, mm) < r /\ r <= DaysBeforeMonth(y, mm) + DaysInMonth(y, mm)
    IN DT(y, m, r - DaysBeforeMonth(y, m))

\* dt + timedelta(days=k)
AddDays(dt, k) == FromOrdinal(ToOrdinal(dt) + k)

(***************************************************************************)
(* The composite pattern of DatePatternFactory.make_regex and the scan of  *)
(* regex.finditer.  The factory's source is not among the files modelled;  *)
(* the pattern here is the sub-language of the documented shapes that the  *)
(* model's texts use: relative keywords, three- and two-number dates, and  *)
(* month-name forms, tried in that priority order at each position.        *)
(***************************************************************************)
GroupNames ==
    {"year", "month", "day", "month_as_text", "day_as_text",
     "today", "yesterday", "tomorrow", "last_week", "next_week",
     "last_month", "next_month", "last_year", "next_year"}

\* The values of FirstNumber.
FirstNumber == {"day", "month", "year"}

\* The characters that separate the components of a date.
SEP_CHARS == {"-", "/", ":", ",", " "}

\* The relative keywords: <<group name, phrase>>.
RelativePhrases ==
    << <<"today", <<"t", "o", "d", "a", "y">>>>,
       <<"yesterday", <<"y", "e", "s", "t", "e", "r", "d", "a", "y">>>>,
       <<"tomorrow", <<"t", "o", "m", "o", "r", "r", "o", "w">>>>,
       <<"last_week", <<"l", "a", "s", "t", " ", "w", "e", "e", "k">>>>,
       <<"next_week", <<"n", "e", "x", "t", " ", "w", "e", "e", "k">>>>,
       <<"last_month", <<"l", "a", "s", "t", " ", "m", "o", "n", "t", "h">>>>,
       <<"next_month", <<"n", "e", "x", "t", " ", "m", "o", "n", "t", "h">>>>,
       <<"last_year", <<"l", "a", "s", "t", " ", "y", "e", "a", "r">>>>,
       <<"next_year", <<"n", "e", "x", "t", " ", "y", "e", "a", "r">>>> >>

\* The month names the pattern accepts: <<abbreviation, full name>>, in
\* calendar order.
MonthNames ==
    << <<<<"j", "a", "n">>, <<"j", "a", "n", "u", "a", "r", "y">>>>,
       <<<<"f", "e", "b">>, <<"f", "e", "b", "r", "u", "a", "r", "y">>>>,
       <<<<"m", "a", "r">>, <<"m", "a", "r", "c", "h">>>>,
       <<<<"a", "p", "r">>, <<"a", "p", "r", "i", "l">>>>,
       <<<<"m", "a", "y">>, <<"m", "a", "y">>>>,
       <<<<"j", "u", "n">>, <<"j", "u", "n", "e">>>>,
       <<<<"j", "u", "l">>, <<"j", "u", "l", "y">>>>,
       <<<<"a", "u", "g">>, <<"a", "u", "g", "u", "s", "t">>>>,
       <<<<"s", "e", "p">>, <<"s", "e", "p", "t", "e", "m", "b", "e", "r">>>>,
       <<<<"o", "c", "t">>, <<"o", "c", "t", "o", "b", "e", "r">>>>,
       <<<<"n", "o", "v">>, <<"n", "o", "v", "e", "m", "b", "e", "r">>>>,
       <<<<"d", "e", "c">>, <<"d", "e", "c", "e", "m", "b", "e", "r">>>> >>

\* The words of a spelled-out ordinal day: an optional tens word, then a
\* unit ordinal.
TensWords == {<<"t", "w", "e", "n", "t", "y">>, <<"t", "h", "i", "r", "t", "y">>}

UnitWords == {<<"f", "i", "r", "s", "t">>, <<"s", "e", "c", "o", "n", "d">>, <<"t", "h", "i", "r", "d">>}

\* A match's groupdict with no group set.
NoGroups == [g \in GroupNames |-> <<>>]

\* The result of trying one alternative: end is the (1-based) position after
\* the match, 0 when the alternative does not match.
NoMatch == [end |-> 0, groups |-> NoGroups]

MaxOf(S) == CHOOSE x \in S : \A y \in S : y <= x

\* The length of the longest run of digits / letters / separators at i.
DigitRun(t, i) ==
    MaxOf({j \in i..(Len(t) + 1) : \A k \in i..(j - 1) : IsDigit(t[k])}) - i

LetterRun(t, i) ==
    MaxOf({j \in i..(Len(t) + 1) : \A k \in i..(j - 1) : IsLetter(t[k])}) - i

SepRun(t, i) ==
    MaxOf({j \in i..(Len(t) + 1) : \A k \in i..(j - 1) : t[k] \in SEP_CHARS}) - i

\* \b: position i starts (ends) a word when no letter or digit is before
\* (at) it.
Alnum(t, i) == i \in 1..Len(t) /\ (IsDigit(t[i]) \/ IsLetter(t[i]))

WordStart(t, i) == ~Alnum(t, i - 1)

WordEnd(t, i) == ~Alnum(t, i)

\* A relative keyword at i, whole-word and case-insensitive.
RelativeAt(t, i) ==
    LET hits == {k \in DOMAIN RelativePhrases :
                    /\ StartsAt(LowerStr(t), i, RelativePhrases[k][2])
                    /\ WordEnd(t, i + Len(RelativePhrases[k][2]))}
    IN IF hits = {} THEN NoMatch
       ELSE LET k == CHOOSE h \in hits : \A h2 \in hits : h <= h2
                e == i + Len(RelativePhrases[k][2])
            IN [end |-> e,
                groups |-> [NoGroups EXCEPT ![RelativePhrases[k][1]] = SubSeq(t, i, e - 1)]]

\* The roles of three consecutive numbers whose first has a digits.
NumberRoles(first, a) ==
    IF a = 4 THEN (IF first = "day" THEN <<"year", "day", "month">>
                   ELSE <<"year", "month", "day">>)
    ELSE IF first = "day" THEN <<"day", "month", "year">>
    ELSE IF first = "month" THEN <<"month", "day", "year">>
    ELSE <<"year", "month", "day">>

\* A digit run of n digits fits a role: the pattern checks widths, not ranges.
FitsRole(role, n) == IF role = "year" THEN n \in {2, 4} ELSE n \in 1..2

\* Three numbers with separators between them.
Numeric3At(t, first, i) ==
    LET a == DigitRun(t, i)
        s1 == SepRun(t, i + a)
        ib == i + a + s1
        b == DigitRun(t, ib)
        s2 == SepRun(t, ib + b)
        ic == ib + b + s2
        c == DigitRun(t, ic)
        roles == NumberRoles(first, a)
    IN IF /\ a >= 1 /\ s1 >= 1 /\ b >= 1 /\ s2 >= 1 /\ c >= 1
          /\ FitsRole(roles[1], a) /\ FitsRole(roles[2], b) /\ FitsRole(roles[3], c)
          /\ WordEnd(t, ic + c)
       THEN [end |-> ic + c,
             groups |-> [NoGroups EXCEPT ![roles[1]] = SubSeq(t, i, i + a - 1),
                                         ![roles[2]] = SubSeq(t, ib, ib + b - 1),
                                         ![roles[3]] = SubSeq(t, ic, ic + c - 1)]]
       ELSE NoMatch

\* Two numbers: a four-digit year with a month, or a month or day (by
\* magnitude and first_number) with a four-digit year.
Numeric2At(t, first, i) ==
    LET a == DigitRun(t, i)
        s1 == SepRun(t, i + a)
        ib == i + a + s1
        b == DigitRun(t, ib)
        A == SubSeq(t, i, i + a - 1)
        B == SubSeq(t, ib, ib + b - 1)
    IN IF a >= 1 /\ s1 >= 1 /\ b >= 1 /\ WordEnd(t, ib + b)
       THEN IF a = 4 /\ b \in 1..2
            THEN [end |-> ib + b, groups |-> [NoGroups EXCEPT !["year"] = A, !["month"] = B]]
            ELSE IF a \in 1..2 /\ b = 4
            THEN [end |-> ib + b,
                  groups |-> IF first = "day" \/ ParseInt(A) > 12
                             THEN [NoGroups EXCEPT !["day"] = A, !["year"] = B]
                             ELSE [NoGroups EXCEPT !["month"] = A, !["year"] = B]]
            ELSE NoMatch
       ELSE NoMatch

\* Whether w (lower case) is a month name or abbreviation.
IsMonthWord(w) == \E k \in DOMAIN MonthNames : w = MonthNames[k][1] \/ w = MonthNames[k][2]

\* The length of a spelled-out ordinal at i: a tens word, at most one
\* separator, a unit word; or a unit word alone.  0 when there is none.
OrdinalRun(t, i) ==
    LET n == LetterRun(t, i)
        w == LowerStr(SubSeq(t, i, i + n - 1))
        tens == {x \in TensWords : StartsAt(LowerStr(t), i, x)}
    IN IF w \in UnitWords THEN n
       ELSE IF tens # {}
       THEN LET x == CHOOSE y \in tens : TRUE
                j == i + Len(x)
                j2 == IF j <= Len(t) /\ t[j] \in SEP_CHARS THEN j + 1 ELSE j
                n2 == LetterRun(t, j2)
            IN IF LowerStr(SubSeq(t, j2, j2 + n2 - 1)) \in UnitWords
               THEN j2 + n2 - i ELSE 0
       ELSE 0

\* A month name, then a day (digits or a spelled-out ordinal) and
\* optionally a four-digit year; or a month name and a four-digit year.
MonthNameAt(t, i) ==
    LET n == LetterRun(t, i)
        name == SubSeq(t, i, i + n - 1)
        s1 == SepRun(t, i + n)
        id == i + n + s1
        d == DigitRun(t, id)
        o == OrdinalRun(t, id)
        dlen == IF d \in 1..2 THEN d ELSE o
        s2 == SepRun(t, id + dlen)
        iy == id + dlen + s2
        y == DigitRun(t, iy)
        base == [NoGroups EXCEPT !["month_as_text"] = name]
        withDay == IF d \in 1..2
                   THEN [base EXCEPT !["day"] = SubSeq(t, id, id + d - 1)]
                   ELSE [base EXCEPT !["day_as_text"] = SubSeq(t, id, id + o - 1)]
    IN IF n >= 1 /\ IsMonthWord(LowerStr(name)) /\ s1 >= 1
       THEN IF d = 4 /\ WordEnd(t, id + d)
            THEN [end |-> id + d,
                  groups |-> [base EXCEPT !["year"] = SubSeq(t, id, id + d - 1)]]
            ELSE IF dlen >= 1 /\ s2 >= 1 /\ y = 4 /\ WordEnd(t, iy + y)
            THEN [end |-> iy + y,
                  groups |-> [withDay EXCEPT !["year"] = SubSeq(t, iy, iy + y - 1)]]
            ELSE IF dlen >= 1 /\ WordEnd(t, id + dlen)
            THEN [end |-> id + dlen, groups |-> withDay]
            ELSE NoMatch
       ELSE NoMatch

\* DatePatternFactory(first_number).make_regex(), tried at position i: the
\* first alternative that matches wins.
make_regex(t, first, i) ==
    IF ~WordStart(t, i) THEN NoMatch
    ELSE IF RelativeAt(t, i).end > 0 THEN RelativeAt(t, i)
    ELSE IF Numeric3At(t, first, i).end > 0 THEN Numeric3At(t, first, i)
    ELSE IF MonthNameAt(t, i).end > 0 THEN MonthNameAt(t, i)
    ELSE Numeric2At(t, first, i)

\* regex.finditer(text): the non-overlapping matches, leftmost first, each
\* with its span (0-based, half-open), its text and its groupdict.
RECURSIVE finditer(_, _, _)
finditer(t, first, i) ==
    IF i > Len(t) THEN <<>>
    ELSE LET r == make_regex(t, first, i)
         IN IF r.end > 0
            THEN <<[span |-> <<i - 1, r.end - 1>>,
                    group |-> SubSeq(t, i, r.end - 1),
                    groups |-> r.groups]>> \o finditer(t, first, r.end)
            ELSE finditer(t, first, i + 1)

(***************************************************************************)
(* The constants of datefind.constants that DateFind reads.                *)
(***************************************************************************)
\* CENTURY: the century prefixed to a two-digit year.
CENTURY == 20

\* DayToNumber: the enum of spelled-out ordinals, <<member name, value>>,
\* restricted to the members the pattern's words can spell.
DayToNumber ==
    << <<<<"F", "I", "R", "S", "T">>, 1>>, <<<<"S", "E", "C", "O", "N", "D">>, 2>>, <<<<"T", "H", "I", "R", "D">>, 3>>,
       <<<<"T", "W", "E", "N", "T", "Y", "F", "I", "R", "S", "T">>, 21>>, <<<<"T", "W", "E", "N", "T", "Y", "S", "E", "C", "O", "N", "D">>, 22>>, <<<<"T", "W", "E", "N", "T", "Y", "T", "H", "I", "R", "D">>, 23>>,
       <<<<"T", "H", "I", "R", "T", "Y", "F", "I", "R", "S", "T">>, 31>> >>

\* JANUARY .. DECEMBER: the pattern of month k, searched for in
\* month_as_text; a month's pattern finds its abbreviation.
MonthPattern(k) == MonthNames[k][1]

(***************************************************************************)
(* DateFind's helpers.  A helper that can raise returns a record: exc is   *)
(* the exception's name ("none" when it returns), value what it returns.   *)
(***************************************************************************)
Returns(v) == [exc |-> "none", value |-> v]

Raises(e) == [exc |-> e, value |-> NoneInt]

\* Python's truth value of an int | None.
Truthy(x) == x # NoneInt /\ x # 0

\* a or b
Or(a, b) == IF Truthy(a) THEN a ELSE b

\* re.sub(rf"[{SEP_CHARS}]", "", s)
RECURSIVE StripSeps(_)
StripSeps(s) ==
    IF s = <<>> THEN <<>>
    ELSE IF s[1] \in SEP_CHARS THEN StripSeps(Tail(s))
    ELSE <<s[1]>> \o StripSeps(Tail(s))

\* _year_to_number expanding every year of at most two digits.
_year_to_number_M(groups) ==
    LET year == groups["year"]
    IN IF year # <<>>
       THEN IF Len(year) <= 2
            THEN ParseInt(IntToStr(CENTURY) \o year)
            ELSE ParseInt(year)
       ELSE NoneInt

\* DateFind._year_to_number
_year_to_number(groups) ==
    LET year == groups["year"]
    IN IF year # <<>>
       THEN IF Len(year) = 2
            THEN ParseInt(IntToStr(CENTURY) \o year)
            ELSE ParseInt(year)
       ELSE NoneInt

\* DateFind._month_to_number
_month_to_number(groups) ==
    LET month_as_text == groups["month_as_text"]
        found == {k \in 1..12 : Contains(LowerStr(month_as_text), MonthPattern(k))}
    IN IF month_as_text # <<>> /\ found # {}
       THEN CHOOSE k \in found : \A j \in found : k <= j
       ELSE IF groups["month"] # <<>>
       THEN ParseInt(groups["month"])
       ELSE NoneInt

\* _day_to_number preferring the numeric day to the day word.
_day_to_number_M(groups) ==
    LET name == UpperStr(StripSeps(groups["day_as_text"]))
        members == {k \in DOMAIN DayToNumber : DayToNumber[k][1] = name}
    IN IF groups["day"] # <<>>
       THEN Returns(ParseInt(groups["day"]))
       ELSE IF groups["day_as_text"] # <<>>
       THEN IF members # {}
            THEN Returns(DayToNumber[CHOOSE k \in members : TRUE][2])
            ELSE Raises("KeyError")
       ELSE Returns(NoneInt)

\* DateFind._day_to_number
_day_to_number(groups) ==
    LET name == UpperStr(StripSeps(groups["day_as_text"]))
        members == {k \in DOMAIN DayToNumber : DayToNumber[k][1] = name}
    IN IF groups["day_as_text"] # <<>>
       THEN IF members # {}
            THEN Returns(DayToNumber[CHOOSE k \in members : TRUE][2])
            ELSE Raises("KeyError")
       ELSE IF groups["day"] # <<>>
       THEN Returns(ParseInt(groups["day"]))
       ELSE Returns(NoneInt)

\* The simple offsets with a week of one day.
SimpleOffsets_M ==
    << <<"today", 0>>, <<"yesterday", -1>>, <<"tomorrow", 1>>,
       <<"last_week", -1>>, <<"next_week", 1>> >>

\* The offset in days of a simple relative keyword (lines 120-129).
SimpleOffsets ==
    << <<"today", 0>>, <<"yesterday", -1>>, <<"tomorrow", 1>>,
       <<"last_week", -7>>, <<"next_week", 7>> >>

\* The adjustments with the month wrapping around the year's ends.
adjustments_M(now) ==
    << <<"last_month", "month", ((now.month + 10) % 12) + 1>>,
       <<"next_month", "month", (now.month % 12) + 1>>,
       <<"last_year", "year", now.year - 1>>,
       <<"next_year", "year", now.year + 1>> >>

\* The adjustments dict (lines 132-137): <<key, field, value>>.
adjustments(now) ==
    << <<"last_month", "month", now.month - 1>>,
       <<"next_month", "month", now.month + 1>>,
       <<"last_year", "year", now.year - 1>>,
       <<"next_year", "year", now.year + 1>> >>

\* The first entry of a table whose key is a group the match set, 0 if none.
FirstSet(table, groups) ==
    LET set == {k \in DOMAIN table : groups[table[k][1]] # <<>>}
    IN IF set = {} THEN 0 ELSE CHOOSE k \in set : \A j \in set : k <= j

\* A replace that clamps the day to the target month's length.
ReplaceOrNone_M(now, field, value) ==
    LET r == [now EXCEPT ![field] = value]
    IN IF r.year \in 1..9999 /\ r.month \in 1..12
       THEN [r EXCEPT !.day = IF r.day > DaysInMonth(r.year, r.month)
                              THEN DaysInMonth(r.year, r.month) ELSE r.day]
       ELSE NoneDT

\* now.replace(**{field: value}) inside try/except ValueError: return None.
ReplaceOrNone(now, field, value) ==
    LET r == [now EXCEPT ![field] = value]
    IN IF ValidDate(r.year, r.month, r.day) THEN r ELSE NoneDT

\* DateFind._handle_relative_dates, given what datetime.now() returned.
_handle_relative_dates(groups, now) ==
    LET s == FirstSet(SimpleOffsets, groups)
        a == FirstSet(adjustments(now), groups)
    IN IF s # 0 THEN (IF SimpleOffsets[s][2] = 0 THEN now
                      ELSE AddDays(now, SimpleOffsets[s][2]))
       ELSE IF a # 0 THEN ReplaceOrNone(now, adjustments(now)[a][2], adjustments(now)[a][3])
       ELSE NoneDT

\* has_date_component (lines 88-90)
has_date_component(groups) ==
    \E key \in {"year", "month", "day", "month_as_text", "day_as_text"} :
        groups[key] # <<>>

\* A Date whose span ends on the last matched character.
Date_M(as_dt, match) ==
    [date |-> as_dt, match |-> match.group,
     span |-> <<match.span[1], match.span[2] - 1>>]

\* Date(date=as_dt, match=match.group(), span=match.span())
Date(as_dt, match) == [date |-> as_dt, match |-> match.group, span |-> match.span]

(***************************************************************************)
(* The state: a DateFind object, one run of its generator find_dates, and  *)
(* the wall clock.                                                         *)
(***************************************************************************)
VARIABLES
    text,          \* self.text
    first_number,  \* self.first_number
    base_date,     \* self.base_date
    clock,         \* the wall clock: what datetime.now(self.tz) returns if called now
    ticks,         \* how many times the clock has advanced
    matches,       \* the matches regex.finditer yields, in its order
    pos,           \* how many of them the for loop has taken; match is matches[pos]
    pc,            \* the generator's position
    now,           \* what the latest datetime.now() call of the run returned
    samples,       \* everything datetime.now() returned during the run
    as_dt,         \* find_dates' locals
    day,
    month,
    year,
    yielded,       \* the Dates yielded so far, in order
    exc            \* the exception that ended the generator, "none" if none

vars == <<text, first_number, base_date, clock, ticks, matches, pos, pc, now,
          samples, as_dt, day, month, year, yielded, exc>>

\* The for loop taking the matches last first.
CurrentMatch_M(ms, n) == ms[Len(ms) + 1 - n]

\* The match the for loop is processing (line 84).
CurrentMatch(ms, n) == ms[n]

match == CurrentMatch(matches, pos)

\* datetime.now(self.tz): reads the clock.
ReadClock ==
    /\ now' = clock
    /\ samples' = samples \cup {clock}

(***************************************************************************)
(* The inputs.                                                             *)
(***************************************************************************)
\* The expressions texts are made of.
Phrases ==
    {RelativePhrases[k][2] : k \in DOMAIN RelativePhrases} \cup
    { <<"T", "o", "d", "a", "y">>, <<"2", "0", "2", "4", "-", "2", "-", "3", "0">>, <<"1", "3", "-", "1", "-", "2", "4">>, <<"0", "-", "1", "2", "-", "2", "4">>, <<"m", "a", "r", " ", "2", "0", "2", "5">>, <<"f", "e", "b", " ", "3", "0">>,
      <<"D", "E", "C", " ", "t", "h", "i", "r", "d">>, <<"2", "0", "2", "2", "-", "1", "2">>, <<"f", "o", "o">> }

RECURSIVE Join(_)
Join(ps) == IF Len(ps) = 1 THEN ps[1] ELSE ps[1] \o <<" ">> \o Join(Tail(ps))

Texts ==
    {t \in {Join(ps) : ps \in UNION {[1..n -> Phrases] : n \in 1..MaxPieces}} :
        Len(t) <= MaxTextLen}

\* The years of the wall clock at construction; 2024 is a leap year.
ClockYears == 2024..(2023 + NumYears)

\* Every day of those years.
Clocks ==
    {dt \in [year : ClockYears, month : 1..12, day : 1..31] :
        ValidDate(dt.year, dt.month, dt.day)}

\* The last day of every month, and of every quarter, of those years.
MonthEnds == {dt \in Clocks : dt.day = DaysInMonth(dt.year, dt.month)}

QuarterEnds == {dt \in MonthEnds : dt.month % 3 = 0}

\* DateFind.__init__ has run; find_dates' generator is created, not started.
Init ==
    /\ text \in Texts
    /\ first_number \in FirstNumber
    /\ clock \in QuarterEnds
    /\ base_date = DT(clock.year, 1, 1)
    /\ ticks = 0
    /\ matches = <<>>
    /\ pos = 0
    /\ pc = "start"
    /\ now = NoneDT
    /\ samples = {}
    /\ as_dt = NoneDT
    /\ day = NoneInt
    /\ month = NoneInt
    /\ year = NoneInt
    /\ yielded = <<>>
    /\ exc = "none"

(***************************************************************************)
(* find_dates, one action per statement that reads the clock or can raise. *)
(***************************************************************************)
\* Lines 81-82: build the pattern and scan the text.
find_dates_start ==
    /\ pc = "start"
    /\ matches' = finditer(text, first_number, 1)
    /\ pc' = "loop"
    /\ UNCHANGED <<text, first_number, base_date, clock, ticks, pos, now, samples,
                   as_dt, day, month, year, yielded, exc>>

\* Line 84: the for loop takes the next match, or the generator returns.
NextMatch ==
    /\ pc = "loop"
    /\ IF pos < Len(matches)
       THEN /\ pos' = pos + 1
            /\ pc' = "relative"
       ELSE /\ pos' = pos
            /\ pc' = "done"
    /\ as_dt' = NoneDT
    /\ day' = NoneInt
    /\ month' = NoneInt
    /\ year' = NoneInt
    /\ UNCHANGED <<text, first_number, base_date, clock, ticks, matches, now,
                   samples, yielded, exc>>

\* Lines 85-91: as_dt = self._handle_relative_dates(match), then the test
\* that sends an absolute match to the field resolution.
HandleRelative ==
    /\ pc = "relative"
    /\ ReadClock
    /\ as_dt' = _handle_relative_dates(match.groups, clock)
    /\ pc' = IF as_dt' = NoneDT /\ has_date_component(match.groups)
             THEN "day" ELSE "emit"
    /\ UNCHANGED <<text, first_number, base_date, clock, ticks, matches, pos,
                   day, month, year, yielded, exc>>

\* Line 92: day = self._day_to_number(match) or 1
ResolveDay ==
    /\ pc = "day"
    /\ LET r == _day_to_number(match.groups)
       IN IF r.exc = "none"
          THEN /\ day' = Or(r.value, 1)
               /\ pc' = "month"
               /\ exc' = exc
          ELSE /\ day' = day
               /\ pc' = "raised"
               /\ exc' = r.exc
    /\ UNCHANGED <<text, first_number, base_date, clock, ticks, matches, pos, now,
                   samples, as_dt, month, year, yielded>>

\* Line 93: month = self._month_to_number(match) or datetime.now(self.tz).month
ResolveMonth ==
    /\ pc = "month"
    /\ LET r == _month_to_number(match.groups)
       IN IF Truthy(r)
          THEN /\ month' = r
               /\ UNCHANGED <<now, samples>>
          ELSE /\ ReadClock
               /\ month' = clock.month
    /\ pc' = "year"
    /\ UNCHANGED <<text, first_number, base_date, clock, ticks, matches, pos,
                   as_dt, day, year, yielded, exc>>

\* Line 94: year = self._year_to_number(match) or datetime.now(self.tz).year
ResolveYear ==
    /\ pc = "year"
    /\ LET r == _year_to_number(match.groups)
       IN IF Truthy(r)
          THEN /\ year' = r
               /\ UNCHANGED <<now, samples>>
          ELSE /\ ReadClock
               /\ year' = clock.year
    /\ pc' = "construct"
    /\ UNCHANGED <<text, first_number, base_date, clock, ticks, matches, pos,
                   as_dt, day, month, yielded, exc>>

\* Line 95: as_dt = datetime(year=int(year), month=month, day=day, ...);
\* the ValueError of an impossible date is not caught.
Construct ==
    /\ pc = "construct"
    /\ IF ValidDate(year, month, day)
       THEN /\ as_dt' = DT(year, month, day)
            /\ pc' = "emit"
            /\ exc' = exc
       ELSE /\ as_dt' = as_dt
            /\ pc' = "raised"
            /\ exc' = "ValueError"
    /\ UNCHANGED <<text, first_number, base_date, clock, ticks, matches, pos, now,
                   samples, day, month, year, yielded>>

\* Lines 97-103: if as_dt: yield Date(...)
Yield ==
    /\ pc = "emit"
    /\ yielded' = IF as_dt # NoneDT THEN Append(yielded, Date(as_dt, match))
                  ELSE yielded
    /\ pc' = "loop"
    /\ UNCHANGED <<text, first_number, base_date, clock, ticks, matches, pos, now,
                   samples, as_dt, day, month, year, exc>>

\* The wall clock advances by a day while the generator is alive.
Tick ==
    /\ pc \notin {"done", "raised"}
    /\ ticks < MaxTicks
    /\ clock' = AddDays(clock, 1)
    /\ ticks' = ticks + 1
    /\ UNCHANGED <<text, first_number, base_date, matches, pos, pc, now, samples,
                   as_dt, day, month, year, yielded, exc>>

Next ==
    \/ find_dates_start
    \/ NextMatch
    \/ HandleRelative
    \/ ResolveDay
    \/ ResolveMonth
    \/ ResolveYear
    \/ Construct
    \/ Yield
    \/ Tick

Spec == Init /\ [][Next]_vars

(***************************************************************************)
(* The resolution of one match, over groupdicts chosen directly: every     *)
(* relative keyword at every day of the clock's years, and every           *)
(* combination of the date slots at the month ends.                        *)
(***************************************************************************)
RelativeGroups ==
    {[NoGroups EXCEPT ![RelativePhrases[k][1]] = RelativePhrases[k][2]] :
        k \in DOMAIN RelativePhrases}

DayInputs == {<<>>, <<"0">>, <<"3", "1">>}

DayWordInputs == {<<>>, <<"t", "w", "e", "n", "t", "y", " ", "t", "h", "i", "r", "d">>, <<"t", "h", "i", "r", "t", "y", "s", "e", "c", "o", "n", "d">>}

MonthInputs == {<<>>, <<"0">>, <<"2">>, <<"1", "3">>}

MonthNameInputs == {<<>>, <<"D", "E", "C">>}

YearInputs == {<<>>, <<"2", "4">>, <<"2", "0", "2", "3">>}

AbsoluteGroups ==
    {[NoGroups EXCEPT !["day"] = d, !["day_as_text"] = w, !["month"] = m,
                      !["month_as_text"] = n, !["year"] = y] :
        d \in DayInputs, w \in DayWordInputs, m \in MonthInputs,
        n \in MonthNameInputs, y \in YearInputs}

\* A match with the given groupdict.
MatchOf(g) == [span |-> <<0, 0>>, group |-> <<>>, groups |-> g]

\* The generator stands at its for loop with one match to take.
InitGroups ==
    /\ text = <<>>
    /\ first_number = "month"
    /\ \/ \E g \in RelativeGroups : matches = <<MatchOf(g)>> /\ clock \in Clocks
       \/ \E g \in AbsoluteGroups : matches = <<MatchOf(g)>> /\ clock \in MonthEnds
    /\ base_date = DT(clock.year, 1, 1)
    /\ ticks = 0
    /\ pos = 0
    /\ pc = "loop"
    /\ now = NoneDT
    /\ samples = {}
    /\ as_dt = NoneDT
    /\ day = NoneInt
    /\ month = NoneInt
    /\ year = NoneInt
    /\ yielded = <<>>
    /\ exc = "none"

NextGroups ==
    \/ NextMatch
    \/ HandleRelative
    \/ ResolveDay
    \/ ResolveMonth
    \/ ResolveYear
    \/ Construct
    \/ Yield
    \/ Tick

SpecGroups == InitGroups /\ [][NextGroups]_vars

(***************************************************************************)
(* _year_to_number on its own, over every digit string of up to            *)
(* MaxYearLen digits.                                                      *)
(***************************************************************************)
YearStrings == UNION {[1..n -> Range(Digits)] : n \in 1..MaxYearLen}

InitYear ==
    /\ text = <<>>
    /\ first_number = "month"
    /\ \E y \in YearStrings : matches = <<MatchOf([NoGroups EXCEPT !["year"] = y])>>
    /\ clock = DT(2024, 1, 1)
    /\ base_date = DT(clock.year, 1, 1)
    /\ ticks = 0
    /\ pos = 1
    /\ pc = "call"
    /\ now = NoneDT
    /\ samples = {}
    /\ as_dt = NoneDT
    /\ day = NoneInt
    /\ month = NoneInt
    /\ year = NoneInt
    /\ yielded = <<>>
    /\ exc = "none"

\* year = self._year_to_number(match=match)
year_call ==
    /\ pc = "call"
    /\ year' = _year_to_number(match.groups)
    /\ pc' = "return"
    /\ UNCHANGED <<text, first_number, base_date, clock, ticks, matches, pos, now,
                   samples, as_dt, day, month, yielded, exc>>

SpecYear == InitYear /\ [][year_call]_vars

(***************************************************************************)
(* The properties.                                                         *)
(***************************************************************************)
Has(g, key) == g[key] # <<>>

\* The calendar, written out: the lengths of the months of a common year.
MonthLengths == <<31, 28, 31, 30, 31, 30, 31, 31, 30, 31, 30, 31>>

LengthOfMonth(y, m) ==
    IF m = 2 /\ y % 4 = 0 /\ (y % 100 # 0 \/ y % 400 = 0) THEN 29 ELSE MonthLengths[m]

InCalendar(dt) ==
    dt.year >= 1 /\ dt.month \in 1..12 /\ dt.day >= 1 /\ dt.day <= LengthOfMonth(dt.year, dt.month)

NextDay(dt) ==
    IF dt.day < LengthOfMonth(dt.year, dt.month) THEN DT(dt.year, dt.month, dt.day + 1)
    ELSE IF dt.month < 12 THEN DT(dt.year, dt.month + 1, 1)
    ELSE DT(dt.year + 1, 1, 1)

RECURSIVE DaysLater(_, _)
DaysLater(dt, k) == IF k = 0 THEN dt ELSE DaysLater(NextDay(dt), k - 1)

\* The Date a match yields when it resolves to dt.
DateOf(dt, m) == [date |-> dt, match |-> m.group, span |-> m.span]

\* C1: every yielded Date's match is the slice of the text its span names;
\* and when the whole text is one match that resolves, exactly one Date is
\* yielded, with match = text and span = (0, len(text)).
C1_SpanCorrect ==
    /\ \A k \in DOMAIN yielded :
          Slice(text, yielded[k].span[1], yielded[k].span[2]) = yielded[k].match
    /\ (pc = "done" /\ Len(matches) = 1 /\ matches[1].span = <<0, Len(text)>>
           /\ yielded # <<>>)
       => yielded = <<[date |-> yielded[1].date, match |-> text, span |-> <<0, Len(text)>>]>>

\* C1's case: of two matches the first was dropped and the second, which
\* starts inside the text, was yielded.
C1_Witness ==
    /\ pc = "done"
    /\ Len(matches) = 2
    /\ Len(yielded) = 1
    /\ yielded[1].span[1] > 0

C3_NoException ==
    /\ pc # "raised"
    /\ exc = "none"
    /\ pc = "done" =>
          \A j \in DOMAIN matches :
              Has(matches[j].groups, "today") =>
                  \E k \in DOMAIN yielded : yielded[k].span = matches[j].span

\* C4: within one run of find_dates every value datetime.now() returned is
\* the same instant.
C4_OneInstant == Cardinality(samples) <= 1

\* The target of a month or year adjustment: now with one field changed.
AdjustTarget(g, n) ==
    IF Has(g, "last_month") THEN DT(n.year, n.month - 1, n.day)
    ELSE IF Has(g, "next_month") THEN DT(n.year, n.month + 1, n.day)
    ELSE IF Has(g, "last_year") THEN DT(n.year - 1, n.month, n.day)
    ELSE DT(n.year + 1, n.month, n.day)

IsAdjust(g) == \E key \in {"last_month", "next_month", "last_year", "next_year"} : Has(g, key)

\* C5: a last/next month (year) match resolves to now with the month (year)
\* one less/more and the same day; when that date is not in the calendar
\* the match yields nothing, never a clamped date.
C5_MonthYear ==
    (pos >= 1 /\ IsAdjust(match.groups)) =>
        LET target == AdjustTarget(match.groups, now)
        IN /\ pc = "emit" => as_dt = (IF InCalendar(target) THEN target ELSE NoneDT)
           /\ pc \in {"loop", "done"} =>
                 yielded = (IF InCalendar(target) THEN <<DateOf(target, match)>> ELSE <<>>)

\* C5's case: "last month" on 2024-03-31 has been processed and nothing
\* was yielded.
C5_Witness ==
    /\ pos = 1
    /\ pc = "done"
    /\ Has(match.groups, "last_month")
    /\ now = DT(2024, 3, 31)
    /\ yielded = <<>>

IsSimple(g) ==
    \E key \in {"today", "yesterday", "tomorrow", "last_week", "next_week"} : Has(g, key)

\* Whether r is the timestamp of a simple relative keyword at instant n.
SimpleResult(g, n, r) ==
    IF Has(g, "today") THEN r = n
    ELSE IF Has(g, "yesterday") THEN InCalendar(r) /\ NextDay(r) = n
    ELSE IF Has(g, "tomorrow") THEN r = NextDay(n)
    ELSE IF Has(g, "last_week") THEN InCalendar(r) /\ DaysLater(r, 7) = n
    ELSE r = DaysLater(n, 7)

\* C6: today is now, yesterday and tomorrow one day before and after it,
\* last and next week seven days; and the day, month and year resolution
\* is never applied to such a match.
C6_SimpleRelative ==
    (pos >= 1 /\ IsSimple(match.groups)) =>
        /\ pc \notin {"day", "month", "year", "construct", "raised"}
        /\ day = NoneInt /\ month = NoneInt /\ year = NoneInt
        /\ pc = "emit" => SimpleResult(match.groups, now, as_dt)
        /\ pc \in {"loop", "done"} =>
              /\ Len(yielded) = 1
              /\ SimpleResult(match.groups, now, yielded[1].date)

\* C6's case: "yesterday" on 2024-03-01 has yielded 2024-02-29.
C6_Witness ==
    /\ pos = 1
    /\ pc = "done"
    /\ Has(match.groups, "yesterday")
    /\ now = DT(2024, 3, 1)
    /\ Len(yielded) = 1
    /\ yielded[1].date = DT(2024, 2, 29)

RECURSIVE Pow10(_)
Pow10(k) == IF k = 0 THEN 1 ELSE 10 * Pow10(k - 1)

\* The number a digit string writes, most significant digit first.
RECURSIVE Decimal(_)
Decimal(d) ==
    IF d = <<>> THEN 0 ELSE DigitVal(d[1]) * Pow10(Len(d) - 1) + Decimal(Tail(d))

DayWordValue(w) == IF w = <<"t", "w", "e", "n", "t", "y", " ", "t", "h", "i", "r", "d">> THEN 23 ELSE 0

MonthNameValue(n) == IF n = <<"D", "E", "C">> THEN 12 ELSE 0

\* C8: for a match with a date component: with no day captured the day is
\* 1, with no month captured the month is the clock's month when it is
\* resolved, with no year captured the year is the clock's year when it is
\* resolved; a day word decides the day and a month name the month even
\* when a number is captured too; the Date yielded has these fields.
C8_Defaults ==
    (pos >= 1 /\ has_date_component(match.groups)) =>
        LET g == match.groups
        IN /\ pc \in {"month", "year", "construct", "emit", "loop"} =>
                 /\ (~Has(g, "day_as_text") /\ ~Has(g, "day")) => day = 1
                 /\ DayWordValue(g["day_as_text"]) # 0 => day = DayWordValue(g["day_as_text"])
           /\ pc \in {"year", "construct", "emit", "loop"} =>
                 /\ Has(g, "month_as_text") => month = MonthNameValue(g["month_as_text"])
                 /\ (~Has(g, "month_as_text") /\ ~Has(g, "month")) =>
                        \E s \in samples : month = s.month
           /\ (pc = "year" /\ ~Has(g, "month_as_text") /\ ~Has(g, "month")) =>
                 month = now.month
           /\ (pc \in {"construct", "emit", "loop"} /\ ~Has(g, "year")) => year = now.year
           /\ pc \in {"emit", "loop"} => as_dt = DT(year, month, day)
           /\ pc = "loop" => yielded = <<DateOf(DT(year, month, day), match)>>

\* C8's case: a day word and a numeric day were both captured, month and
\* year were not, and the Date yielded has the word's day.
C8_Witness ==
    /\ pos = 1
    /\ pc = "loop"
    /\ match.groups["day_as_text"] = <<"t", "w", "e", "n", "t", "y", " ", "t", "h", "i", "r", "d">>
    /\ match.groups["day"] = <<"3", "1">>
    /\ ~Has(match.groups, "month") /\ ~Has(match.groups, "month_as_text")
    /\ ~Has(match.groups, "year")
    /\ Len(yielded) = 1
    /\ yielded[1].date = DT(now.year, now.month, 23)

\* A numeric day (month) of value 0 was captured and no day word (month name).
ZeroDay(g) == ~Has(g, "day_as_text") /\ Has(g, "day") /\ Decimal(g["day"]) = 0

ZeroMonth(g) == ~Has(g, "month_as_text") /\ Has(g, "month") /\ Decimal(g["month"]) = 0

\* C9: a match whose captured numeric day is 0, or whose captured numeric
\* month is 0, yields no Date.
C9_ZeroRejected ==
    \A k \in DOMAIN yielded : \A j \in DOMAIN matches :
        matches[j].span = yielded[k].span =>
            ~ZeroDay(matches[j].groups) /\ ~ZeroMonth(matches[j].groups)

\* C10: "last month" in January and "next month" in December yield nothing,
\* whatever the day; in every other month the Date yielded is in now's year.
C10_NoWrap ==
    (pos >= 1 /\ pc \in {"loop", "done"}) =>
        LET g == match.groups
        IN /\ (Has(g, "last_month") /\ now.month = 1) => yielded = <<>>
           /\ (Has(g, "next_month") /\ now.month = 12) => yielded = <<>>
           /\ (Has(g, "last_month") \/ Has(g, "next_month")) =>
                 \A k \in DOMAIN yielded : yielded[k].date.year = now.year

\* C10's case: "last month" on a day of January has been processed and
\* nothing was yielded.
C10_Witness ==
    /\ pos = 1
    /\ pc = "done"
    /\ Has(match.groups, "last_month")
    /\ now = DT(2024, 1, 15)
    /\ yielded = <<>>

====
